---------------------------- MODULE Spec2Model ----------------------------
(***************************************************************************)
(* Container log viewer: the real-time log streaming pipeline.             *)
(*                                                                         *)
(*   server  src/server/src/websocket/index.ts   (session registry,        *)
(*           filter and dispatch), src/server/src/services/container.ts    *)
(*   client  src/client/src/hooks/useWebSocket.ts (transport, batching     *)
(*           buffer), the useLogStream hook and the App handlers           *)
(*                                                                         *)
(* Strings are sequences of one-character strings, so that split, join,    *)
(* toLowerCase, includes and trim are computed as the code computes them.  *)
(* One server connection (ws) and one mounted client are modelled.         *)
(***************************************************************************)
EXTENDS Integers, Sequences, FiniteSets, TLC

(* ------------------------------ bounds -------------------------------- *)

\* client requests the server receives on the connection
MaxRequests == 2
\* log messages the client receives
MaxArrivals == 2
\* flush timers that can be scheduled at once
MaxTimers == 2
\* length the Retained Log List is explored to when an effect re-run grows it
MaxLogLen == 4
\* length the Retained Log List is explored to when a new prop of the
\* useLogStream hook grows it
MaxPropLogLen == 2
\* closes of the client connection
MaxCloses == 2
\* calls of the LogFilter's onChange
MaxCalls == 2

(* ----------------------------- constants ------------------------------ *)

Containers == {"c1", "c2"}

\* JavaScript undefined, for an optional string property that is absent
Undefined == "<undefined>"
\* an absent data property (a sequence, like every other string of characters)
NoData == <<Undefined>>

\* keyword filters a start request carries ("" and a mixed-case keyword)
Filters == {<<>>, <<"A">>}

\* const [maxLogs, setMaxLogs] = useState<number>(500)
DefaultMaxLogs == 500
\* the upper end of the range handleMaxLogsChange accepts
MaxLogsLimit == 1000

\* setTimeout(..., 300) of the LogFilter debounce
DebounceMs == 300
\* setTimeout(..., 3000) of the reconnect
ReconnectMs == 3000

\* texts typed into the maxLogs input
MaxLogsInputs == { <<"1">> }

\* raw chunks a tail process writes to stdout / stderr
Chunks == { <<"a">>, <<"b", "\n", "A", "a">>, <<" ", "\n">>, <<"A", "\n", "b", "\n", "a">> }

(* ------------------------------ strings ------------------------------- *)

\* String.prototype.toLowerCase on one character
LowerChar(c) == IF c = "A" THEN "a" ELSE IF c = "B" THEN "b" ELSE c

toLowerCase(s) == [i \in 1..Len(s) |-> LowerChar(s[i])]

\* String.prototype.includes
includes(s, sub) ==
  \E i \in 0..(Len(s) - Len(sub)) : SubSeq(s, i + 1, i + Len(sub)) = sub

\* String.prototype.split('\n'): the lines of s, at least one
RECURSIVE split(_)
split(s) ==
  IF \A i \in 1..Len(s) : s[i] # "\n"
  THEN <<s>>
  ELSE LET k == CHOOSE i \in 1..Len(s) :
                  s[i] = "\n" /\ \A j \in 1..(i - 1) : s[j] # "\n"
       IN <<SubSeq(s, 1, k - 1)>> \o split(SubSeq(s, k + 1, Len(s)))

\* Array.prototype.join('\n')
RECURSIVE join(_)
join(lines) ==
  IF Len(lines) = 0 THEN <<>>
  ELSE IF Len(lines) = 1 THEN lines[1]
  ELSE lines[1] \o <<"\n">> \o join(Tail(lines))

\* a filter that compares the line as it is written
RECURSIVE filterLinesSensitive(_, _)
filterLinesSensitive(lines, filterLower) ==
  IF Len(lines) = 0 THEN <<>>
  ELSE (IF includes(lines[1], filterLower) THEN <<lines[1]>> ELSE <<>>)
         \o filterLinesSensitive(Tail(lines), filterLower)

\* Array.prototype.filter
RECURSIVE filterLines(_, _)
filterLines(lines, filterLower) ==
  IF Len(lines) = 0 THEN <<>>
  ELSE (IF includes(toLowerCase(lines[1]), filterLower) THEN <<lines[1]>> ELSE <<>>)
         \o filterLines(Tail(lines), filterLower)

IsSpace(c) == c \in {" ", "\n"}

\* String.prototype.trim
RECURSIVE trim(_)
trim(s) ==
  IF Len(s) = 0 THEN s
  ELSE IF IsSpace(s[1]) THEN trim(Tail(s))
  ELSE IF IsSpace(s[Len(s)]) THEN trim(SubSeq(s, 1, Len(s) - 1))
  ELSE s

(* ------------------------------- state -------------------------------- *)

VARIABLES
  \* ---- server, one connection ws ----
  wsReadyState,    \* ws.readyState on the server: "OPEN" | "CLOSED"
  requests,        \* the start / stop messages received so far, in order
  awaiting,        \* start handlers suspended at `await streamContainerLogs`
  procState,       \* per start request: its tail process "none" | "running" | "exited"
  procKilled,      \* the tail processes process.kill() was called on
  activeStreams,   \* activeStreams.get(ws): the registered process, or NoProcess
  sent,            \* the message ws.send transmitted last (<<>> before the first)
  lastStarted,     \* history: the process the latest `started` message was sent for
  \* ---- client: useWebSocket ----
  wsRef,           \* readyState of wsRef.current: "CONNECTING" | "OPEN" | "CLOSED"
  isConnected,
  reconnectTimeout,\* TRUE while the 3 s reconnect timer is pending
  lastMessage,
  batchMessages,   \* the published BatchSnapshot
  pendingMessages, \* pendingMessagesRef.current
  batchTimerRef,   \* batchTimerRef.current: a timer id, or NoTimer for null
  timers,          \* the flush timers that are scheduled and not cancelled
  outbox,          \* the start requests wsRef.current.send has transmitted (a set)
  \* ---- client: App / useLogStream ----
  selectedContainer,
  filter,
  logs,            \* the Retained Log List
  isStreaming,
  maxLogs,
  maxLogsInput,
  maxLogsError,
  \* ---- client: useWebSocket life cycle ----
  mounted,         \* the component that uses the hook is mounted
  attempts,        \* history: closes seen, connect() calls made, and the delay
                   \* of the reconnect timer set last
  \* ---- client: LogFilter ----
  inputValue,      \* the text in the input
  debounceTimer,   \* ms left on the pending debounce timer, or NoDebounce
  filterMounted,
  onChangeCalls,   \* history: the arguments onChange was called with
  sinceInput,      \* history: ms since the input changed last (capped)
  \* ---- history, read by the properties only ----
  arrivals,        \* log messages received so far (numbers the next one)
  discarded,       \* ids of the messages that were pending when clearBuffer ran
  ignoredSnapshot, \* the published snapshot arrived while streaming was off or no
                   \* container was selected, and so was every run of the batch
                   \* effect on it since
  cleared,         \* the clearBuffer() calls made since the last other step:
                   \* how many (at most 2), and what the latest one found
  warnings         \* what console.warn and console.error reported: socket
                   \* errors, the frames onmessage threw
                   \* away and the messages sendMessage did not transmit

serverVars == <<wsReadyState, requests, awaiting, procState, procKilled,
                activeStreams, sent, lastStarted>>

transportVars == <<wsRef, isConnected, reconnectTimeout, lastMessage, outbox>>
bufferVars == <<batchMessages, pendingMessages, batchTimerRef, timers>>
streamVars == <<selectedContainer, filter, logs, isStreaming, maxLogs,
                maxLogsInput, maxLogsError>>
historyVars == <<arrivals, discarded, ignoredSnapshot, cleared, warnings>>

lifecycleVars == <<mounted, attempts>>
filterVars == <<inputValue, debounceTimer, filterMounted, onChangeCalls, sinceInput>>

clientVars == <<transportVars, bufferVars, streamVars, historyVars, lifecycleVars,
                filterVars>>

vars == <<serverVars, clientVars>>

\* A tail process is named by the index of the start request that spawned it.
ProcIds == 1..MaxRequests
NoProcess == 0

Running(p) == procState[p] = "running"

(* ------------------------------ server -------------------------------- *)

\* ws.send(JSON.stringify(m)): transmitted when the socket is open; the ws
\* library drops a send on a closed socket without throwing.
WsSend(out, m) == IF wsReadyState # "OPEN" THEN out ELSE <<m>>

ServerMsg(type, data, containerId, message, src) ==
  [type |-> type, data |-> data, containerId |-> containerId,
   message |-> message, src |-> src]

\* the lines sendFilteredLogs keeps of a chunk
FilteredLines(chunk, keyword) ==
  IF keyword # <<>>
  THEN join(filterLines(split(chunk), toLowerCase(keyword)))
  ELSE chunk

\* sendFilteredLogs returns without sending
Suppressed(chunk, keyword) ==
  keyword # <<>> /\ trim(FilteredLines(chunk, keyword)) = <<>>

\* the message of sendFilteredLogs: { type: 'log', data: lines }
LogMessage(p, lines) == ServerMsg("log", lines, Undefined, "", p)

sendFilteredLogs(out, p, chunk, keyword) ==
  IF wsReadyState # "OPEN" THEN out
  ELSE IF Suppressed(chunk, keyword) THEN out
  ELSE WsSend(out, LogMessage(p, FilteredLines(chunk, keyword)))

\* a stopStream that kills and leaves the entry
StopRegistryKept(reg) == reg

\* stopStream(ws): the registry entry after the call
StopRegistry(reg) == NoProcess

\* stopStream(ws): the processes kill() has been called on after the call
StopKilled(reg, killed) == IF reg # NoProcess THEN killed \cup {reg} ELSE killed

\* message { type: 'start', containerId, filter }: stopStream, then the
\* handler suspends at `await streamContainerLogs(...)`
OnStart(c, f) ==
  /\ wsReadyState = "OPEN"
  /\ Len(requests) < MaxRequests
  /\ requests' = Append(requests, [type |-> "start", containerId |-> c, filter |-> f])
  /\ procKilled' = StopKilled(activeStreams, procKilled)
  /\ activeStreams' = StopRegistry(activeStreams)
  /\ awaiting' = awaiting \cup {Len(requests) + 1}
  /\ UNCHANGED <<wsReadyState, procState, sent>>
  /\ UNCHANGED lastStarted
  /\ UNCHANGED clientVars

\* the entry activeStreams.set(ws, process) leaves in the registry
Register(reg, p) == p

\* streamContainerLogs resolves: the process is spawned, and in the same
\* turn of the event loop the handler registers it, attaches its listeners
\* and sends `started`
SpawnDone(r) ==
  /\ r \in awaiting
  /\ awaiting' = awaiting \ {r}
  /\ procState' = [procState EXCEPT ![r] = "running"]
  /\ activeStreams' = Register(activeStreams, r)
  /\ sent' = WsSend(sent, ServerMsg("started", NoData, requests[r].containerId, "", r))
  /\ lastStarted' = IF wsReadyState = "OPEN" THEN r ELSE lastStarted
  /\ UNCHANGED <<wsReadyState, requests, procKilled>>
  /\ UNCHANGED clientVars

\* streamContainerLogs throws (no runtime detected): the catch block sends
\* an error message
SpawnFail(r) ==
  /\ r \in awaiting
  /\ awaiting' = awaiting \ {r}
  /\ sent' = WsSend(sent, ServerMsg("error", NoData, Undefined, "no runtime", r))
  /\ UNCHANGED <<wsReadyState, requests, procState, procKilled, activeStreams>>
  /\ UNCHANGED lastStarted
  /\ UNCHANGED clientVars

\* a handler that reads the keyword of the latest start request
StreamFilterLatest(p) == requests[Len(requests)].filter

\* the `filter` the data handlers of process p close over: the one
\* streamContainerLogs returned for the start request of p
StreamFilter(p) == requests[p].filter

\* process.stdout / process.stderr 'data': a process that has not exited
\* (killed or not) writes a chunk
ProcData(p, chunk) ==
  /\ Running(p)
  /\ sent' = sendFilteredLogs(sent, p, chunk, StreamFilter(p))
  /\ UNCHANGED <<wsReadyState, requests, awaiting, procState, procKilled, activeStreams>>
  /\ UNCHANGED lastStarted
  /\ UNCHANGED clientVars

\* process 'error': the spawn failed or the process could not be signalled
ProcError(p) ==
  /\ Running(p)
  /\ sent' = WsSend(sent, ServerMsg("error", NoData, Undefined, "spawn error", p))
  /\ UNCHANGED <<wsReadyState, requests, awaiting, procState, procKilled, activeStreams>>
  /\ UNCHANGED lastStarted
  /\ UNCHANGED clientVars

\* the registry entry after the process 'close' handler ran
CloseRegistry(reg, p) == NoProcess

\* process 'close': the tail process has exited
ProcClose(p) ==
  /\ Running(p)
  /\ procState' = [procState EXCEPT ![p] = "exited"]
  /\ sent' = WsSend(sent, ServerMsg("end", NoData, Undefined,
                       IF p \in procKilled THEN "code null" ELSE "code 0", p))
  /\ activeStreams' = CloseRegistry(activeStreams, p)
  /\ UNCHANGED <<wsReadyState, requests, awaiting, procKilled>>
  /\ UNCHANGED lastStarted
  /\ UNCHANGED clientVars

\* message { type: 'stop' }
OnStop ==
  /\ wsReadyState = "OPEN"
  /\ Len(requests) < MaxRequests
  /\ requests' = Append(requests, [type |-> "stop", containerId |-> Undefined, filter |-> <<>>])
  /\ procKilled' = StopKilled(activeStreams, procKilled)
  /\ activeStreams' = StopRegistry(activeStreams)
  /\ sent' = WsSend(sent, ServerMsg("stopped", NoData, Undefined, "", 0))
  /\ UNCHANGED <<wsReadyState, awaiting, procState>>
  /\ UNCHANGED lastStarted
  /\ UNCHANGED clientVars

\* ws 'close' (and ws 'error', which the ws library follows with 'close')
WsClose ==
  /\ wsReadyState = "OPEN"
  /\ wsReadyState' = "CLOSED"
  /\ procKilled' = StopKilled(activeStreams, procKilled)
  /\ activeStreams' = StopRegistry(activeStreams)
  /\ UNCHANGED <<requests, awaiting, procState, sent>>
  /\ UNCHANGED lastStarted
  /\ UNCHANGED clientVars

ServerInit ==
  /\ wsReadyState = "OPEN"
  /\ requests = <<>>
  /\ awaiting = {}
  /\ procState = [p \in ProcIds |-> "none"]
  /\ procKilled = {}
  /\ activeStreams = NoProcess
  /\ sent = <<>>
  /\ lastStarted = NoProcess

ServerNext ==
  \/ \E c \in Containers, f \in Filters : OnStart(c, f)
  \/ \E r \in ProcIds : SpawnDone(r)
  \/ \E r \in ProcIds : SpawnFail(r)
  \/ \E p \in ProcIds, chunk \in Chunks : ProcData(p, chunk)
  \/ \E p \in ProcIds : ProcError(p)
  \/ \E p \in ProcIds : ProcClose(p)
  \/ OnStop
  \/ WsClose

(* ------------------------- client: messages --------------------------- *)

StartRequest(c, f) == [type |-> "start", containerId |-> c, filter |-> f]

\* no start request: the origin of a message is unknown
NoStream == [type |-> "none", containerId |-> Undefined, filter |-> <<>>]

\* an inbound message; src (the start request whose tail process produced
\* it, or NoStream) and id (its arrival number) are history fields
ClientMsg(type, data, containerId, src, id) ==
  [type |-> type, data |-> data, containerId |-> containerId, src |-> src, id |-> id]

\* lastMessage === null
NoMessage == ClientMsg("<null>", NoData, Undefined, NoStream, 0)

NoTimer == 0

NotCleared == [calls |-> 0, pending |-> 0, batch |-> 0]
TimerIds == 1..MaxTimers

\* a test that only rejects a message without data
TruthyIfPresent(data) == data # NoData

\* JavaScript truthiness of msg.data
Truthy(data) == data # NoData /\ data # <<>>

\* The log messages that can arrive: chunks of the streams the client asked
\* for, tagged as the wire protocol says, and messages of unknown origin
\* with no tag or no text.
InboundLogs(sentStarts, id) ==
  { ClientMsg("log", <<"x">>, r.containerId, r, id) : r \in sentStarts }
    \cup { ClientMsg("log", d, Undefined, NoStream, id) : d \in {<<"x">>} }
    \cup { ClientMsg("log", d, "c1", NoStream, id) : d \in {<<>>} }

\* The control messages that can arrive.
InboundControl ==
  { ClientMsg("started", NoData, "c1", NoStream, 0),
    ClientMsg("end", NoData, Undefined, NoStream, 0) }

(* ---------------------- client: useLogStream -------------------------- *)

LogEntry(msg) ==
  [text |-> msg.data, containerId |-> msg.containerId, src |-> msg.src, id |-> msg.id]

\* the filter without its origin-tag test
AcceptedAnyOrigin(msg, selected) == Truthy(msg.data)

\* .filter((msg) => msg.data && msg.containerId === selectedContainer)
Accepted(msg, selected) == Truthy(msg.data) /\ msg.containerId = selected

RECURSIVE NewEntries(_, _)
NewEntries(batch, selected) ==
  IF Len(batch) = 0 THEN <<>>
  ELSE (IF Accepted(batch[1], selected) THEN <<LogEntry(batch[1])>> ELSE <<>>)
         \o NewEntries(Tail(batch), selected)

\* a trim that keeps the oldest entries
RetainOldest(newLogs, bound) ==
  IF bound > 0 /\ Len(newLogs) > bound THEN SubSeq(newLogs, 1, bound) ELSE newLogs

\* a trim that takes the bound 0 for a bound
RetainAlways(newLogs, bound) ==
  IF Len(newLogs) > bound
  THEN SubSeq(newLogs, Len(newLogs) - bound + 1, Len(newLogs))
  ELSE newLogs

\* newLogs.slice(-maxLogs) when a bound is set and exceeded
Retain(newLogs, bound) ==
  IF bound > 0 /\ Len(newLogs) > bound
  THEN SubSeq(newLogs, Len(newLogs) - bound + 1, Len(newLogs))
  ELSE newLogs

\* the batch effect, run on a snapshot that is not empty, returns at
\* `if (!isStreaming) return` or `if (!selectedContainer) return`
Ignored(batch, streaming, selected) ==
  Len(batch) > 0 /\ (~streaming \/ selected = "")

\* a batch effect without its early returns
BatchEffectUnguarded(batch, streaming, bound, selected, prev) ==
  Retain(prev \o NewEntries(batch, selected), bound)

\* the batch effect: the Retained Log List after it ran
BatchEffect(batch, streaming, bound, selected, prev) ==
  IF Len(batch) = 0 THEN prev
  ELSE IF ~streaming THEN prev
  ELSE IF selected = "" THEN prev
  ELSE IF NewEntries(batch, selected) = <<>> THEN prev
  ELSE Retain(prev \o NewEntries(batch, selected), bound)

(* ----------------------- client: useWebSocket ------------------------- *)

\* a React state setter: the update is dropped once the component is unmounted
SetState(current, next) == IF mounted THEN next ELSE current

\* ws.onopen
OnOpen ==
  /\ wsRef = "CONNECTING"
  /\ wsRef' = "OPEN"
  /\ isConnected' = SetState(isConnected, TRUE)
  /\ cleared' = NotCleared
  /\ UNCHANGED <<reconnectTimeout, lastMessage, outbox, bufferVars, streamVars,
                 arrivals, discarded, ignoredSnapshot, warnings>>
  /\ UNCHANGED <<lifecycleVars, filterVars>>
  /\ UNCHANGED serverVars

\* a reconnect delay that grows with every close
ReconnectDelayBackoff(closes) == ReconnectMs * (closes + 1)

\* the delay of the reconnect timer set at a close, after `closes` earlier ones
ReconnectDelay(closes) == ReconnectMs

\* ws.onclose: the reconnect timer is set
OnClose ==
  /\ wsRef \in {"CONNECTING", "OPEN", "CLOSING"}
  /\ attempts.closes < MaxCloses
  /\ wsRef' = "CLOSED"
  /\ isConnected' = SetState(isConnected, FALSE)
  /\ reconnectTimeout' = TRUE
  /\ attempts' = [attempts EXCEPT !.closes = @ + 1,
                                  !.delay = ReconnectDelay(attempts.closes)]
  /\ cleared' = NotCleared
  /\ UNCHANGED <<lastMessage, outbox, bufferVars, streamVars, arrivals, discarded, ignoredSnapshot, warnings>>
  /\ UNCHANGED <<mounted, filterVars>>
  /\ UNCHANGED serverVars

\* an onerror handler that takes the connection for lost
ConnectedAfterErrorLost(connected) == FALSE

\* ws.onerror calls no setter: isConnected after it ran
ConnectedAfterError(connected) == connected

\* ws.onerror: console.error
OnError ==
  /\ wsRef \in {"CONNECTING", "OPEN"}
  /\ isConnected' = SetState(isConnected, ConnectedAfterError(isConnected))
  /\ warnings' = warnings \cup {[kind |-> "socket error", frame |-> <<>>, request |-> NoStream]}
  /\ cleared' = NotCleared
  /\ UNCHANGED <<wsRef, reconnectTimeout, lastMessage, outbox, bufferVars, streamVars,
                 arrivals, discarded, ignoredSnapshot>>
  /\ UNCHANGED <<lifecycleVars, filterVars>>
  /\ UNCHANGED serverVars

\* the reconnect timer fires: connect()
Reconnect ==
  /\ reconnectTimeout
  /\ reconnectTimeout' = FALSE
  /\ wsRef' = "CONNECTING"
  /\ attempts' = [attempts EXCEPT !.connects = @ + 1]
  /\ cleared' = NotCleared
  /\ UNCHANGED <<isConnected, lastMessage, outbox, bufferVars, streamVars,
                 arrivals, discarded, ignoredSnapshot, warnings>>
  /\ UNCHANGED <<mounted, filterVars>>
  /\ UNCHANGED serverVars

\* the cleanup of the mount effect: both timers are cleared (their refs keep
\* the ids) and close() is called on the current socket
Unmount ==
  /\ mounted
  /\ mounted' = FALSE
  /\ reconnectTimeout' = FALSE
  /\ timers' = IF batchTimerRef # NoTimer THEN timers \ {batchTimerRef} ELSE timers
  /\ wsRef' = IF wsRef \in {"CONNECTING", "OPEN"} THEN "CLOSING" ELSE wsRef
  /\ cleared' = NotCleared
  /\ UNCHANGED <<isConnected, lastMessage, outbox, batchMessages, pendingMessages,
                 batchTimerRef, streamVars, arrivals, discarded, ignoredSnapshot, warnings>>
  /\ UNCHANGED <<attempts, filterVars>>
  /\ UNCHANGED serverVars

\* a test no message passes
IsLogNever(msg) == FALSE

\* message.type === 'log'
IsLog(msg) == msg.type = "log"

\* ws.onmessage with a log message: buffered, and the flush timer is set
\* when none is
OnLogMessage(msg) ==
  /\ wsRef = "OPEN"
  /\ arrivals < MaxArrivals
  /\ IsLog(msg)
  /\ arrivals' = arrivals + 1
  /\ pendingMessages' = Append(pendingMessages, msg)
  /\ IF batchTimerRef = NoTimer
     THEN /\ timers # TimerIds
          /\ LET t == CHOOSE i \in TimerIds \ timers : \A j \in TimerIds \ timers : i <= j
             IN /\ batchTimerRef' = t
                /\ timers' = timers \cup {t}
     ELSE UNCHANGED <<batchTimerRef, timers>>
  /\ cleared' = NotCleared
  /\ UNCHANGED <<transportVars, batchMessages, streamVars, discarded, ignoredSnapshot, warnings>>
  /\ UNCHANGED <<lifecycleVars, filterVars>>
  /\ UNCHANGED serverVars

\* ws.onmessage with any other message: delivered at once
OnControlMessage(msg) ==
  /\ wsRef = "OPEN"
  /\ ~IsLog(msg)
  /\ lastMessage' = SetState(lastMessage, msg)
  /\ cleared' = NotCleared
  /\ UNCHANGED <<wsRef, isConnected, reconnectTimeout, outbox, bufferVars, streamVars,
                 arrivals, discarded, ignoredSnapshot, warnings>>
  /\ UNCHANGED <<lifecycleVars, filterVars>>
  /\ UNCHANGED serverVars

\* a flush that publishes the latest pending message only
FlushedLatestOnly(pending) == <<pending[Len(pending)]>>

\* setBatchMessages([...pendingMessagesRef.current]): the snapshot a flush publishes
Flushed(pending) == pending

\* frames that are no message: not JSON, and the JSON text null
InvalidFrames == { <<"o", "o", "p", "s">>, <<"n", "u", "l", "l">> }

\* JSON.parse(event.data) throws a SyntaxError, or yields null and reading
\* message.type throws a TypeError
Throws(frame) ==
  \/ frame = <<"n", "u", "l", "l">>
  \/ Len(frame) < 2
  \/ frame[1] # "{"
  \/ frame[Len(frame)] # "}"

\* a handler that delivers the raw text of a frame it cannot read
CaughtDelivered(last, frame) == ClientMsg("invalid", frame, Undefined, NoStream, 0)

\* the catch block: lastMessage is not set
Caught(last, frame) == last

\* ws.onmessage with a frame that makes the try block throw: console.warn
OnInvalidMessage(frame) ==
  /\ wsRef = "OPEN"
  /\ Throws(frame)
  /\ lastMessage' = Caught(lastMessage, frame)
  /\ warnings' = warnings \cup {[kind |-> "invalid", frame |-> frame, request |-> NoStream]}
  /\ cleared' = NotCleared
  /\ UNCHANGED <<wsRef, isConnected, reconnectTimeout, outbox, bufferVars, streamVars,
                 arrivals, discarded, ignoredSnapshot>>
  /\ UNCHANGED <<lifecycleVars, filterVars>>
  /\ UNCHANGED serverVars

\* a timer callback that leaves the id of the timer in the ref
FiredTimerRefKept(ref) == ref

\* the timer callback: batchTimerRef.current = null
FiredTimerRef(ref) == NoTimer

\* the flush timer fires; the batch effect runs on the new snapshot
BatchTimerFire(t) ==
  /\ t \in timers
  /\ timers' = timers \ {t}
  /\ batchTimerRef' = FiredTimerRef(batchTimerRef)
  /\ IF Len(pendingMessages) > 0
     THEN /\ batchMessages' = SetState(batchMessages, Flushed(pendingMessages))
          /\ pendingMessages' = <<>>
          /\ logs' = IF mounted
                     THEN BatchEffect(batchMessages', isStreaming, maxLogs,
                                      selectedContainer, logs)
                     ELSE logs
          /\ ignoredSnapshot' = SetState(ignoredSnapshot,
                                         Ignored(batchMessages', isStreaming,
                                                 selectedContainer))
     ELSE UNCHANGED <<batchMessages, pendingMessages, logs, ignoredSnapshot>>
  /\ cleared' = NotCleared
  /\ UNCHANGED <<transportVars, selectedContainer, filter, isStreaming, maxLogs,
                 maxLogsInput, maxLogsError, arrivals, discarded, warnings>>
  /\ UNCHANGED <<lifecycleVars, filterVars>>
  /\ UNCHANGED serverVars

\* clearBuffer() that leaves the buffer as it is
ClearedPendingKept(pending) == pending

\* clearBuffer(): what it leaves in pendingMessagesRef.current
ClearedPending(pending) == <<>>

\* clearBuffer() without clearTimeout
ClearedTimersKept(ref, scheduled) == scheduled

\* clearBuffer(): the scheduled timers after clearTimeout(batchTimerRef.current)
ClearedTimers(ref, scheduled) == IF ref # NoTimer THEN scheduled \ {ref} ELSE scheduled

\* clearBuffer() that cancels the timer and keeps its id in the ref
ClearedTimerRefKept(ref) == ref

\* clearBuffer(): what it leaves in batchTimerRef.current
ClearedTimerRef(ref) == NoTimer

\* clearBuffer() without setBatchMessages([])
ClearedBatchKept(batch) == batch

\* clearBuffer(): setBatchMessages([])
ClearedBatch(batch) == <<>>

\* the messages a clearBuffer() call throws away
Pending == { pendingMessages[i].id : i \in DOMAIN pendingMessages }

\* clearBuffer() called on its own
ClearBuffer ==
  /\ mounted
  /\ pendingMessages' = ClearedPending(pendingMessages)
  /\ timers' = ClearedTimers(batchTimerRef, timers)
  /\ batchTimerRef' = ClearedTimerRef(batchTimerRef)
  /\ batchMessages' = ClearedBatch(batchMessages)
  /\ logs' = BatchEffect(batchMessages', isStreaming, maxLogs, selectedContainer, logs)
  /\ discarded' = discarded \cup Pending
  /\ ignoredSnapshot' = FALSE
  /\ cleared' = [calls |-> IF cleared.calls < 2 THEN cleared.calls + 1 ELSE 2,
                 pending |-> Len(pendingMessages), batch |-> Len(batchMessages)]
  /\ UNCHANGED <<transportVars, selectedContainer, filter, isStreaming, maxLogs,
                 maxLogsInput, maxLogsError, arrivals, warnings>>
  /\ UNCHANGED <<lifecycleVars, filterVars>>
  /\ UNCHANGED serverVars

\* a sendMessage that transmits whatever the state of the socket
SendMessageAlways(out, m) == out \cup {m}

\* sendMessage: transmitted only while the socket is open
SendMessage(out, m) == IF wsRef = "OPEN" THEN out \cup {m} ELSE out

\* sendMessage: console.warn('WebSocket is not connected') otherwise
SendWarned(warned, m) ==
  IF wsRef = "OPEN" THEN warned
  ELSE warned \cup {[kind |-> "not connected", frame |-> <<>>, request |-> m]}

\* the messages the caller of the hook hands to sendMessage
Sendable == { StartRequest("c1", <<>>) }

\* sendMessage(m) called by the user of the hook
CallSendMessage(m) ==
  /\ mounted
  /\ outbox' = SendMessage(outbox, m)
  /\ warnings' = SendWarned(warnings, m)
  /\ cleared' = NotCleared
  /\ UNCHANGED <<wsRef, isConnected, reconnectTimeout, lastMessage, bufferVars, streamVars,
                 arrivals, discarded, ignoredSnapshot>>
  /\ UNCHANGED <<lifecycleVars, filterVars>>
  /\ UNCHANGED serverVars

(* ------------------------ client: App handlers ------------------------ *)

\* a handler without its setLogs([])
ClearedLogsKept(prev) == prev

\* the Retained Log List after setLogs([])
ClearedLogs(prev) == <<>>

\* a handler that asks for a stream whenever the connection is open
ShouldStartAny(c, connected) == connected

\* `if (containerId && isConnected)`, `if (selectedContainer && isConnected)`
ShouldStart(c, connected) == c # "" /\ connected

\* handleContainerChange(containerId)
HandleContainerChange(c) ==
  /\ selectedContainer' = c
  /\ pendingMessages' = ClearedPending(pendingMessages)
  /\ timers' = ClearedTimers(batchTimerRef, timers)
  /\ batchTimerRef' = ClearedTimerRef(batchTimerRef)
  /\ batchMessages' = ClearedBatch(batchMessages)
  /\ logs' = BatchEffect(batchMessages', isStreaming, maxLogs, c, ClearedLogs(logs))
  /\ outbox' = IF ShouldStart(c, isConnected)
               THEN SendMessage(outbox, StartRequest(c, filter))
               ELSE outbox
  /\ warnings' = IF ShouldStart(c, isConnected)
                 THEN SendWarned(warnings, StartRequest(c, filter))
                 ELSE warnings
  /\ discarded' = discarded \cup Pending
  /\ ignoredSnapshot' = FALSE
  /\ cleared' = NotCleared
  /\ UNCHANGED <<wsRef, isConnected, reconnectTimeout, lastMessage, filter, isStreaming,
                 maxLogs, maxLogsInput, maxLogsError, arrivals>>
  /\ UNCHANGED <<lifecycleVars, filterVars>>
  /\ UNCHANGED serverVars

\* handleFilterChange(newFilter): what it does to the App and the hook
FilterChanged(f) ==
  /\ f # filter
  /\ filter' = f
  /\ IF ShouldStart(selectedContainer, isConnected)
     THEN /\ pendingMessages' = ClearedPending(pendingMessages)
          /\ timers' = ClearedTimers(batchTimerRef, timers)
          /\ batchTimerRef' = ClearedTimerRef(batchTimerRef)
          /\ batchMessages' = ClearedBatch(batchMessages)
          /\ logs' = BatchEffect(batchMessages', isStreaming, maxLogs, selectedContainer,
                                 ClearedLogs(logs))
          /\ outbox' = SendMessage(outbox, StartRequest(selectedContainer, f))
          /\ warnings' = SendWarned(warnings, StartRequest(selectedContainer, f))
          /\ discarded' = discarded \cup Pending
          /\ ignoredSnapshot' = FALSE
     ELSE UNCHANGED <<bufferVars, logs, outbox, discarded, ignoredSnapshot, warnings>>
  /\ cleared' = NotCleared
  /\ UNCHANGED <<wsRef, isConnected, reconnectTimeout, lastMessage, selectedContainer,
                 isStreaming, maxLogs, maxLogsInput, maxLogsError, arrivals>>
  /\ UNCHANGED lifecycleVars
  /\ UNCHANGED serverVars

\* handleFilterChange(newFilter); LogFilter calls it with a changed value only
HandleFilterChange(f) ==
  /\ FilterChanged(f)
  /\ UNCHANGED filterVars

\* handleClear / clearLogs()
ClearLogs ==
  /\ logs' = ClearedLogs(logs)
  /\ cleared' = NotCleared
  /\ UNCHANGED <<transportVars, bufferVars, selectedContainer, filter, isStreaming,
                 maxLogs, maxLogsInput, maxLogsError, arrivals, discarded, ignoredSnapshot, warnings>>
  /\ UNCHANGED <<lifecycleVars, filterVars>>
  /\ UNCHANGED serverVars

\* setIsStreaming(enabled); a change re-runs the batch effect on the
\* current snapshot
SetIsStreaming(enabled) ==
  /\ isStreaming' = enabled
  /\ logs' = IF enabled # isStreaming
             THEN BatchEffect(batchMessages, enabled, maxLogs, selectedContainer, logs)
             ELSE logs
  /\ Len(logs') <= MaxLogLen
  /\ ignoredSnapshot' = (ignoredSnapshot /\ Ignored(batchMessages, enabled, selectedContainer))
  /\ cleared' = NotCleared
  /\ UNCHANGED <<transportVars, bufferVars, selectedContainer, filter, maxLogs,
                 maxLogsInput, maxLogsError, arrivals, discarded, warnings>>
  /\ UNCHANGED <<lifecycleVars, filterVars>>
  /\ UNCHANGED serverVars

(* ----------------------------- LogFilter ------------------------------ *)

\* no debounce timer is pending
NoDebounce == -1

\* texts typed into the keyword input
FilterInputs == { <<>>, <<"A">>, <<"A", "b">> }

\* spans of time that pass between two events, in ms
Durations == {100, 200}

\* everything outside the LogFilter and the clearBuffer history
appVars == <<serverVars, transportVars, bufferVars, streamVars, arrivals, discarded, ignoredSnapshot,
             warnings, lifecycleVars>>

\* a debounce effect that leaves a pending timer running
RestartedKept(pending) == IF pending = NoDebounce THEN DebounceMs ELSE pending

\* the debounce effect re-runs: its cleanup clears the pending timer and a
\* new one of 300 ms is set
Restarted(pending) == DebounceMs

\* the user edits the input: setInputValue(e.target.value)
TypeFilter(v) ==
  /\ filterMounted
  /\ v # inputValue
  /\ inputValue' = v
  /\ debounceTimer' = Restarted(debounceTimer)
  /\ sinceInput' = 0
  /\ cleared' = NotCleared
  /\ UNCHANGED <<filterMounted, onChangeCalls>>
  /\ UNCHANGED appVars

\* time passes, not beyond the moment a pending timer is due
Elapse(d) ==
  /\ debounceTimer # 0
  /\ debounceTimer = NoDebounce \/ d <= debounceTimer
  /\ debounceTimer' = IF debounceTimer = NoDebounce THEN NoDebounce ELSE debounceTimer - d
  /\ sinceInput' = IF sinceInput + d > DebounceMs THEN DebounceMs ELSE sinceInput + d
  /\ cleared' = NotCleared
  /\ UNCHANGED <<inputValue, filterMounted, onChangeCalls>>
  /\ UNCHANGED appVars

\* the debounce timer fires: onChange(inputValue) if it differs from value;
\* onChange is the App's handleFilterChange, which sets the filter, so the
\* component is rendered with the new value and both its effects run
DebounceFire ==
  /\ filterMounted
  /\ debounceTimer = 0
  /\ IF inputValue # filter
     THEN /\ Len(onChangeCalls) < MaxCalls
          /\ onChangeCalls' = Append(onChangeCalls, inputValue)
          /\ FilterChanged(inputValue)
          /\ inputValue' = filter'
          /\ debounceTimer' = Restarted(NoDebounce)
     ELSE /\ debounceTimer' = NoDebounce
          /\ cleared' = NotCleared
          /\ UNCHANGED <<inputValue, onChangeCalls>>
          /\ UNCHANGED appVars
  /\ UNCHANGED <<filterMounted, sinceInput>>

\* the App renders again and hands the component a new onChange function
ParentRerender ==
  /\ filterMounted
  /\ debounceTimer' = Restarted(debounceTimer)
  /\ cleared' = NotCleared
  /\ UNCHANGED <<inputValue, filterMounted, onChangeCalls, sinceInput>>
  /\ UNCHANGED appVars

\* the component is unmounted: the cleanup clears the pending timer
UnmountFilter ==
  /\ filterMounted
  /\ filterMounted' = FALSE
  /\ debounceTimer' = NoDebounce
  /\ cleared' = NotCleared
  /\ UNCHANGED <<inputValue, onChangeCalls, sinceInput>>
  /\ UNCHANGED appVars

\* the LogFilter component in the App
FilterNext ==
  \/ \E v \in FilterInputs : TypeFilter(v)
  \/ \E d \in Durations : Elapse(d)
  \/ DebounceFire
  \/ ParentRerender
  \/ UnmountFilter

(* ---------------------- handleMaxLogsChange --------------------------- *)

DigitChars == <<"0", "1", "2", "3", "4", "5", "6", "7", "8", "9">>
IsDigit(c) == \E i \in 1..10 : DigitChars[i] = c
DigitValue(c) == (CHOOSE i \in 1..10 : DigitChars[i] = c) - 1

\* a test that any non-empty text passes
AllDigitsLoose(value) == Len(value) > 0

\* /^\d+$/.test(value)
AllDigits(value) == Len(value) > 0 /\ \A i \in 1..Len(value) : IsDigit(value[i])

\* the value of a string of digits
RECURSIVE DigitsValue(_)
DigitsValue(ds) ==
  IF Len(ds) = 0 THEN 0
  ELSE 10 * DigitsValue(SubSeq(ds, 1, Len(ds) - 1)) + DigitValue(ds[Len(ds)])

\* the longest prefix of digits
RECURSIVE DigitPrefix(_)
DigitPrefix(s) ==
  IF Len(s) = 0 \/ ~IsDigit(s[1]) THEN <<>> ELSE <<s[1]>> \o DigitPrefix(Tail(s))

RECURSIVE trimStart(_)
trimStart(s) == IF Len(s) > 0 /\ IsSpace(s[1]) THEN trimStart(Tail(s)) ELSE s

\* parseInt(value, 10): leading white space, an optional sign, then the
\* longest run of digits; NaN when there is none
parseInt(value) ==
  LET t == trimStart(value)
      signed == Len(t) > 0 /\ t[1] \in {"-", "+"}
      ds == DigitPrefix(IF signed THEN Tail(t) ELSE t)
  IN IF Len(ds) = 0 THEN [nan |-> TRUE, num |-> 0]
     ELSE [nan |-> FALSE,
           num |-> IF signed /\ t[1] = "-" THEN 0 - DigitsValue(ds) ELSE DigitsValue(ds)]

\* the error handleMaxLogsChange sets ("" for none)
MaxLogsErrorOf(value) ==
  IF value = <<>> THEN "Required"
  ELSE IF parseInt(value).nan \/ ~AllDigits(value) THEN "Invalid number"
  ELSE IF parseInt(value).num < 0 \/ parseInt(value).num > MaxLogsLimit THEN "Must be 0~1000"
  ELSE ""

\* a commit of whatever number parseInt reads
CommittedUnchecked(value, bound) ==
  IF parseInt(value).nan THEN bound ELSE parseInt(value).num

\* setMaxLogs(num), reached only when every check passed
CommittedMaxLogs(value, bound) ==
  IF MaxLogsErrorOf(value) = "" THEN parseInt(value).num ELSE bound

\* handleMaxLogsChange(value); a committed change of the bound re-runs the
\* batch effect on the current snapshot
HandleMaxLogsChange(value) ==
  /\ maxLogsInput' = value
  /\ maxLogsError' = MaxLogsErrorOf(value)
  /\ maxLogs' = CommittedMaxLogs(value, maxLogs)
  /\ logs' = IF maxLogs' # maxLogs
             THEN BatchEffect(batchMessages, isStreaming, maxLogs', selectedContainer, logs)
             ELSE logs
  /\ Len(logs') <= MaxLogLen
  /\ cleared' = NotCleared
  /\ UNCHANGED <<transportVars, bufferVars, selectedContainer, filter, isStreaming,
                 arrivals, discarded, ignoredSnapshot, warnings>>
  /\ UNCHANGED <<lifecycleVars, filterVars>>
  /\ UNCHANGED serverVars

ClientInit ==
  /\ wsRef = "CONNECTING"
  /\ isConnected = FALSE
  /\ reconnectTimeout = FALSE
  /\ lastMessage = NoMessage
  /\ batchMessages = <<>>
  /\ pendingMessages = <<>>
  /\ batchTimerRef = NoTimer
  /\ timers = {}
  /\ outbox = {}
  /\ selectedContainer = ""
  /\ filter = <<>>
  /\ logs = <<>>
  /\ isStreaming = TRUE
  /\ maxLogs = DefaultMaxLogs
  /\ maxLogsInput = <<"5", "0", "0">>
  /\ maxLogsError = ""
  /\ arrivals = 0
  /\ discarded = {}
  /\ ignoredSnapshot = FALSE
  /\ cleared = NotCleared
  /\ warnings = {}
  /\ mounted = TRUE
  /\ attempts = [closes |-> 0, connects |-> 1, delay |-> 0]
  /\ inputValue = <<>>
  /\ debounceTimer = DebounceMs
  /\ filterMounted = TRUE
  /\ onChangeCalls = <<>>
  /\ sinceInput = DebounceMs

\* the useWebSocket hook on its own: its socket, its timers and its caller
HookNext ==
  \/ OnOpen
  \/ OnError
  \/ OnClose
  \/ Reconnect
  \/ \E msg \in InboundLogs(outbox, arrivals + 1) \cup InboundControl : OnLogMessage(msg)
  \/ \E msg \in InboundLogs(outbox, arrivals + 1) \cup InboundControl : OnControlMessage(msg)
  \/ \E frame \in InvalidFrames : OnInvalidMessage(frame)
  \/ \E t \in TimerIds : BatchTimerFire(t)
  \/ ClearBuffer
  \/ \E m \in Sendable : CallSendMessage(m)

\* the snapshots the useLogStream hook is handed as its batchMessages prop
Snapshots ==
  { <<>>,
    << ClientMsg("log", <<"x">>, "c1", NoStream, 1) >>,
    << ClientMsg("log", <<"x">>, "c1", NoStream, 1),
       ClientMsg("log", <<"y">>, "c1", NoStream, 2) >>,
    << ClientMsg("log", <<"x">>, "c2", NoStream, 1),
       ClientMsg("log", <<"y">>, "c1", NoStream, 2) >>,
    << ClientMsg("log", <<>>, "c1", NoStream, 1) >>,
    << ClientMsg("log", NoData, "c1", NoStream, 1),
       ClientMsg("log", <<"y">>, "c1", NoStream, 2),
       ClientMsg("log", <<>>, "c1", NoStream, 3) >> }

\* texts typed into the maxLogs input of the hook
StreamMaxLogsInputs ==
  { <<>>, <<"a", "b", "c">>, <<"1", "2", "a", "b", "c">>, <<"-", "1">>,
    <<"1", "0", ".", "5">>, <<"1", "0", "0", "1">>, <<"1", "0", "0", "0">>,
    <<"0">>, <<"1">>, <<"2">> }

\* the hook is rendered with a new batchMessages prop: the batch effect runs
SnapshotArrives(batch) ==
  /\ batchMessages' = batch
  /\ logs' = BatchEffect(batch, isStreaming, maxLogs, selectedContainer, logs)
  /\ Len(logs') <= MaxPropLogLen
  /\ ignoredSnapshot' = Ignored(batch, isStreaming, selectedContainer)
  /\ cleared' = NotCleared
  /\ UNCHANGED <<transportVars, pendingMessages, batchTimerRef, timers, selectedContainer,
                 filter, isStreaming, maxLogs, maxLogsInput, maxLogsError, arrivals,
                 discarded, warnings>>
  /\ UNCHANGED <<lifecycleVars, filterVars>>
  /\ UNCHANGED serverVars

\* the hook is rendered with another selectedContainer prop: the batch
\* effect runs again on the current snapshot
SelectedContainerChanges(c) ==
  /\ c # selectedContainer
  /\ selectedContainer' = c
  /\ logs' = BatchEffect(batchMessages, isStreaming, maxLogs, c, logs)
  /\ Len(logs') <= MaxPropLogLen
  /\ ignoredSnapshot' = (ignoredSnapshot /\ Ignored(batchMessages, isStreaming, c))
  /\ cleared' = NotCleared
  /\ UNCHANGED <<transportVars, bufferVars, filter, isStreaming, maxLogs, maxLogsInput,
                 maxLogsError, arrivals, discarded, warnings>>
  /\ UNCHANGED <<lifecycleVars, filterVars>>
  /\ UNCHANGED serverVars

\* the useLogStream hook on its own: its props and the functions it returns
StreamNext ==
  \/ \E batch \in Snapshots : SnapshotArrives(batch)
  \/ \E c \in Containers \cup {""} : SelectedContainerChanges(c)
  \/ \E enabled \in BOOLEAN : SetIsStreaming(enabled)
  \/ \E value \in StreamMaxLogsInputs : HandleMaxLogsChange(value)
  \/ ClearLogs

\* the hook over its whole life: mounted, used, unmounted
LifecycleNext ==
  \/ HookNext
  \/ Unmount

\* what acts on the PendingBuffer of the hook: the socket, log messages,
\* the flush timer, clearBuffer and the teardown
BufferNext ==
  \/ OnOpen
  \/ OnClose
  \/ Reconnect
  \/ \E msg \in InboundLogs(outbox, arrivals + 1) : OnLogMessage(msg)
  \/ \E t \in TimerIds : BatchTimerFire(t)
  \/ ClearBuffer
  \/ Unmount

\* the App and its connection: the socket opens, closes and is made anew
\* while the user changes the container and the filter
SubjectNext ==
  \/ OnOpen
  \/ OnClose
  \/ Reconnect
  \/ \E c \in Containers \cup {""} : HandleContainerChange(c)
  \/ \E f \in Filters : HandleFilterChange(f)

\* the App: the hook, the batch effect and the handlers the user drives
ClientNext ==
  \/ OnOpen
  \/ \E msg \in InboundLogs(outbox, arrivals + 1) : OnLogMessage(msg)
  \/ \E t \in TimerIds : BatchTimerFire(t)
  \/ \E c \in Containers \cup {""} : HandleContainerChange(c)
  \/ \E f \in Filters : HandleFilterChange(f)
  \/ ClearLogs
  \/ \E enabled \in BOOLEAN : SetIsStreaming(enabled)
  \/ \E value \in MaxLogsInputs : HandleMaxLogsChange(value)

(* --------------------------- specifications --------------------------- *)

Init == ServerInit /\ ClientInit

\* the server with its connection: requests arrive, processes run and exit
ServerSpec == Init /\ [][ServerNext]_vars

\* the mounted App: messages arrive, timers fire, the user acts
ClientSpec == Init /\ [][ClientNext]_vars

\* the useWebSocket hook driven through its own interface
HookSpec == Init /\ [][HookNext]_vars

\* the mounted hook with its reconnect timer firing when it is due
HookFairSpec == Init /\ [][HookNext]_vars /\ WF_vars(Reconnect)

\* the hook until and after its component is unmounted
LifecycleSpec == Init /\ [][LifecycleNext]_vars

\* the App across closes and reconnects of its connection
SubjectSpec == Init /\ [][SubjectNext]_vars

\* the buffer of the hook over its whole life, with a scheduled flush timer
\* firing when it is due
FlushFairSpec ==
  Init /\ [][BufferNext]_vars /\ WF_vars(\E t \in TimerIds : BatchTimerFire(t))

\* the LogFilter component: typing, time, renders of its parent, unmount
FilterSpec == Init /\ [][FilterNext]_vars

\* the useLogStream hook driven through its props and returned functions
StreamSpec == Init /\ [][StreamNext]_vars

(* ------------------------------ claims -------------------------------- *)

\* C1 (P1, origin isolation): every LogEntry of the Retained Log List was
\* built from a log message whose containerId is the selected container.
C1_OriginIsolation ==
  \A i \in DOMAIN logs : logs[i].containerId = selectedContainer

\* A snapshot holding a message tagged with another container has been
\* processed: the message was rejected, another one of it was accepted.
C1_Witness ==
  /\ logs # <<>>
  /\ \E i \in DOMAIN batchMessages :
       /\ Truthy(batchMessages[i].data)
       /\ batchMessages[i].containerId \in Containers \ {selectedContainer}

\* C2: every log message the server sends carries the containerId of the
\* tail process whose chunk produced it.
C2_LogCarriesOriginTag ==
  \A i \in DOMAIN sent :
    sent[i].type = "log" => sent[i].containerId = requests[sent[i].src].containerId

\* C3: never two tail processes of the connection alive that kill() was not
\* called on.
C3_AtMostOneLiveProcess ==
  Cardinality({ p \in ProcIds : Running(p) /\ p \notin procKilled }) <= 1

\* C4: after start c1 then start c2 and no further request, once both
\* handlers have finished the process of the second start is the registered
\* one for as long as it runs.
C4_SecondStartStaysRegistered ==
  ( /\ Len(requests) = 2
    /\ requests[1].type = "start"
    /\ requests[2].type = "start"
    /\ wsReadyState = "OPEN"
    /\ awaiting = {}
    /\ Running(2) )
  => activeStreams = 2

\* C5: after the connection closed no tail process of it is alive without
\* kill() having been called on it.
C5_NoOrphanAfterClose ==
  wsReadyState = "CLOSED" => \A p \in ProcIds : Running(p) => p \in procKilled

\* C6: the exit of a tail process that is not the registered one leaves the
\* registry entry alone.
C6_ReplacedExitKeepsRegistry ==
  [][ \A p \in ProcIds :
        (ProcClose(p) /\ activeStreams # p) => activeStreams' = activeStreams ]_vars

\* C7: no LogEntry of the Retained Log List was produced by a tail process
\* started with another keyword than the current filter.
C7_NoStaleFilterData ==
  \A i \in DOMAIN logs : logs[i].src # NoStream => logs[i].src.filter = filter

\* C8: a message that was pending when clearBuffer() ran is in no later
\* snapshot and not in the buffer again, and no cancelled timer is left
\* scheduled.
C8_DiscardedNeverPublished ==
  /\ \A i \in DOMAIN batchMessages : batchMessages[i].id \notin discarded
  /\ \A i \in DOMAIN pendingMessages : pendingMessages[i].id \notin discarded
  /\ timers = IF batchTimerRef = NoTimer THEN {} ELSE {batchTimerRef}

\* clearBuffer() threw pending messages away, and a later flush published
\* what arrived after it.
C8_Witness == discarded # {} /\ batchMessages # <<>>

\* C9: right after clearBuffer() the published snapshot is empty.
C9_ClearPublishesEmpty == cleared.calls > 0 => batchMessages = <<>>

\* clearBuffer() has just run on a published, non-empty snapshot.
C9_Witness == cleared.calls = 1 /\ cleared.batch > 0

\* C10 (P2, clear idempotence): after clearBuffer() the buffer is empty and
\* no flush timer is scheduled, and a second call in a row changes nothing.
C10_ClearIdempotent ==
  /\ [](cleared.calls > 0 =>
          pendingMessages = <<>> /\ batchTimerRef = NoTimer /\ timers = {})
  /\ [][ (cleared.calls >= 1 /\ cleared'.calls = 2) =>
           UNCHANGED <<transportVars, bufferVars, streamVars>> ]_vars

\* clearBuffer() has been called twice in a row: the first call threw
\* pending messages away, the second found nothing pending.
C10_Witness == cleared.calls = 2 /\ cleared.pending = 0 /\ discarded # {}

\* C11 (P3, batch completeness): the messages pending at any time are those
\* that arrived since the flush timer was scheduled, in arrival order, and
\* when the timer expires the snapshot published is exactly that sequence
\* and the buffer is left empty.
C11_BatchCompleteness ==
  /\ []( /\ (pendingMessages = <<>>) <=> (batchTimerRef = NoTimer)
         /\ \A i \in DOMAIN pendingMessages :
              pendingMessages[i].id = arrivals - Len(pendingMessages) + i )
  /\ [][ \A t \in TimerIds :
           (BatchTimerFire(t) /\ pendingMessages # <<>>) =>
             /\ Len(batchMessages') = Len(pendingMessages)
             /\ \A i \in DOMAIN pendingMessages : batchMessages'[i] = pendingMessages[i]
             /\ pendingMessages' = <<>> ]_vars

\* a flush has published two messages that arrived within one window, the
\* earlier one first, and the buffer is empty
C11_Witness ==
  /\ Len(batchMessages) = 2
  /\ batchMessages[1].id + 1 = batchMessages[2].id
  /\ pendingMessages = <<>>
  /\ batchTimerRef = NoTimer
  /\ cleared.calls = 0

\* C12: a published snapshot is consumed once: no log message contributes
\* more than one LogEntry to the Retained Log List.
C12_SnapshotConsumedOnce ==
  \A i, j \in DOMAIN logs : logs[i].id = logs[j].id => i = j

\* C13 (P4, retention FIFO): when a snapshot brings the Retained Log List
\* over a bound B > 0, the list that results has length B and is the last B
\* elements of the previous list followed by the accepted entries, in order.
C13_RetentionFifo ==
  [][ \A batch \in Snapshots :
        LET all == logs \o NewEntries(batch, selectedContainer)
        IN ( /\ SnapshotArrives(batch)
             /\ isStreaming
             /\ selectedContainer # ""
             /\ NewEntries(batch, selectedContainer) # <<>>
             /\ maxLogs > 0
             /\ Len(all) > maxLogs )
           => /\ Len(logs') = maxLogs
              /\ \A k \in 1..maxLogs : logs'[k] = all[Len(all) - maxLogs + k] ]_vars

\* with the bound 1, a snapshot of two accepted messages has been processed:
\* the list holds the entry of the later message and nothing else
C13_Witness ==
  /\ maxLogs = 1
  /\ isStreaming
  /\ Len(NewEntries(batchMessages, selectedContainer)) = 2
  /\ Len(logs) = 1
  /\ logs[1].id = batchMessages[2].id
  /\ logs[1].text = batchMessages[2].data

\* C14 (P5, unbounded retention): while the bound is 0 an append evicts
\* nothing: the list grows by exactly the accepted entries.
C14_UnboundedRetention ==
  [][ \A batch \in Snapshots :
        ( /\ SnapshotArrives(batch)
          /\ isStreaming
          /\ selectedContainer # ""
          /\ maxLogs = 0 )
        => /\ Len(logs') = Len(logs) + Len(NewEntries(batch, selectedContainer))
           /\ \A k \in DOMAIN logs : logs'[k] = logs[k] ]_vars

\* with the bound 0, two entries were accepted into the list
C14_Witness ==
  /\ maxLogs = 0
  /\ isStreaming
  /\ Len(logs) = 2
  /\ Len(NewEntries(batchMessages, selectedContainer)) = 2

\* C15 (P6, maxLogs validation): the error shown is "Required" for the empty
\* text, "Invalid number" for a text that is not all digits, "Must be 0~1000"
\* for digits with a value above 1000 and none for digits with a value in
\* 0..1000; the text shown is the text typed.
C15_MaxLogsValidation ==
  /\ []( maxLogsError =
           IF maxLogsInput = <<>> THEN "Required"
           ELSE IF \E i \in DOMAIN maxLogsInput :
                     maxLogsInput[i] \notin {"0", "1", "2", "3", "4", "5", "6", "7", "8", "9"}
                THEN "Invalid number"
           ELSE IF DigitsValue(maxLogsInput) > 1000 THEN "Must be 0~1000"
           ELSE "" )
  /\ [][ \A value \in StreamMaxLogsInputs :
           HandleMaxLogsChange(value) => maxLogsInput' = value ]_vars

\* a text that starts with digits and goes on with letters was typed and
\* rejected
C15_Witness ==
  /\ maxLogsInput = <<"1", "2", "a", "b", "c">>
  /\ maxLogsError = "Invalid number"

\* C16: the committed bound changes only when a valid text is typed, and
\* then to the value of that text; an invalid text leaves it as it was.
C16_InvalidKeepsBound ==
  /\ [][ \A value \in StreamMaxLogsInputs :
           HandleMaxLogsChange(value) =>
             maxLogs' = IF /\ value # <<>>
                           /\ \A i \in DOMAIN value :
                                value[i] \in {"0", "1", "2", "3", "4", "5", "6", "7", "8", "9"}
                           /\ DigitsValue(value) <= 1000
                        THEN DigitsValue(value)
                        ELSE maxLogs ]_vars
  /\ [][ maxLogs' # maxLogs =>
           \E value \in StreamMaxLogsInputs : HandleMaxLogsChange(value) ]_vars

\* the bound 1 was committed, and a text over the range typed after it left
\* it in effect
C16_Witness ==
  /\ maxLogs = 1
  /\ maxLogsInput = <<"1", "0", "0", "1">>
  /\ maxLogsError = "Must be 0~1000"

\* C17 (Scenario C): a snapshot that arrives while streaming is disabled or
\* while no container is selected leaves the Retained Log List as it was.
C17_IgnoredWhileStopped ==
  [][ \A batch \in Snapshots :
        (SnapshotArrives(batch) /\ batch # <<>> /\ (~isStreaming \/ selectedContainer = ""))
        => logs' = logs ]_vars

\* streaming is off and the current snapshot ends with a message of the
\* selected container that the list, which is not empty, does not hold
C17_Witness ==
  /\ ~isStreaming
  /\ selectedContainer = "c1"
  /\ Len(batchMessages) = 2
  /\ Accepted(batchMessages[2], selectedContainer)
  /\ Len(logs) = 1
  /\ logs[1].id = 1

\* C18: a message that is no log message becomes lastMessage at once and
\* never enters the buffer or a snapshot; a log message never becomes
\* lastMessage and leaves the published snapshot as it is until a flush.
C18_ControlBypassesBatching ==
  /\ []( /\ lastMessage.type # "log"
         /\ \A i \in DOMAIN pendingMessages : pendingMessages[i].type = "log"
         /\ \A i \in DOMAIN batchMessages : batchMessages[i].type = "log" )
  /\ [][ \A msg \in InboundLogs(outbox, arrivals + 1) \cup InboundControl :
           /\ (OnControlMessage(msg) /\ msg.type # "log") =>
                 (lastMessage' = msg /\ UNCHANGED bufferVars)
           /\ (OnLogMessage(msg) /\ msg.type = "log") =>
                 /\ lastMessage' = lastMessage
                 /\ batchMessages' = batchMessages
                 /\ pendingMessages' = Append(pendingMessages, msg) ]_vars

\* a log message is waiting in the buffer, not published, and a control
\* message has been delivered
C18_Witness ==
  /\ lastMessage.type = "started"
  /\ pendingMessages # <<>>
  /\ batchMessages = <<>>
  /\ batchTimerRef # NoTimer

\* C19: a frame that cannot be read as a message is thrown away: lastMessage,
\* the snapshot, the buffer, the flush timer and the connection state stay
\* as they were.
C19_InvalidFrameIgnored ==
  [][ \A frame \in InvalidFrames :
        OnInvalidMessage(frame) =>
          UNCHANGED <<lastMessage, batchMessages, pendingMessages, batchTimerRef, timers,
                      wsRef, isConnected, reconnectTimeout>> ]_vars

\* a frame that is not JSON was thrown away while a control message had been
\* delivered and a log message was waiting for its flush
C19_Witness ==
  /\ \E w \in warnings : w.kind = "invalid" /\ w.frame = <<"o", "o", "p", "s">>
  /\ lastMessage # NoMessage
  /\ pendingMessages # <<>>
  /\ batchTimerRef \in timers
  /\ isConnected

\* C20: sendMessage transmits a message exactly when the socket is open at
\* the call; nothing is transmitted at any other step, so a message that
\* was dropped is not sent later.
C20_SendOnlyWhenOpen ==
  /\ [][ \A m \in Sendable :
           CallSendMessage(m) =>
             outbox' = IF wsRef = "OPEN" THEN outbox \cup {m} ELSE outbox ]_vars
  /\ [][ outbox' # outbox =>
           (wsRef = "OPEN" /\ \E m \in Sendable : CallSendMessage(m)) ]_vars

\* a message was dropped while the socket was not open, the connection is
\* open now, and the message has not been transmitted
C20_Witness ==
  /\ \E w \in warnings : w.kind = "not connected" /\ w.request \notin outbox
  /\ wsRef = "OPEN"
  /\ isConnected

\* C21: while the hook is mounted, a new connection is attempted only when
\* the reconnect timer fires, once for every close, the timer is always set
\* for 3 seconds, and a closed connection is followed by a new attempt.
C21_ReconnectOncePerClose ==
  /\ []( /\ attempts.connects = attempts.closes + (IF reconnectTimeout THEN 0 ELSE 1)
         /\ reconnectTimeout <=> wsRef = "CLOSED"
         /\ reconnectTimeout => attempts.delay = 3000 )
  /\ [][ (wsRef' = "CONNECTING" /\ wsRef # "CONNECTING") =>
           (reconnectTimeout /\ ~reconnectTimeout' /\ wsRef = "CLOSED") ]_vars
  /\ (wsRef = "CLOSED") ~> (wsRef = "CONNECTING")

\* the connection has closed twice and been re-attempted twice, and the
\* third connection is open
C21_Witness ==
  /\ attempts.closes = 2
  /\ attempts.connects = 3
  /\ attempts.delay = 3000
  /\ wsRef = "OPEN"

\* C22: after unmount no connection is being made or open and no reconnect
\* timer is pending; no flush timer is left scheduled.
C22_NoConnectionAfterUnmount ==
  ~mounted => /\ wsRef \in {"CLOSING", "CLOSED"}
              /\ ~reconnectTimeout
              /\ timers = {}

\* C23: a stop with no registered stream changes nothing in the registry,
\* kills nothing and answers `stopped`, never `error`; a stop with a
\* registered stream kills that process and leaves no entry.
C23_StopIsIdempotent ==
  [][ OnStop =>
        /\ activeStreams' = NoProcess
        /\ procKilled' = IF activeStreams = NoProcess THEN procKilled
                          ELSE procKilled \cup {activeStreams}
        /\ Len(sent') = 1
        /\ sent'[1].type = "stopped" ]_vars

\* two stops in a row on a connection that never had a stream
C23_Witness ==
  /\ Len(requests) = 2
  /\ requests[1].type = "stop"
  /\ requests[2].type = "stop"
  /\ procKilled = {}
  /\ activeStreams = NoProcess
  /\ Len(sent) = 1
  /\ sent[1].type = "stopped"

\* C24: a start that fails sends an `error` message and leaves the registry
\* without an entry for the connection; a process error sends an `error`
\* message.
C24_FailureSurfaced ==
  [][ /\ \A r \in ProcIds :
           (SpawnFail(r) /\ wsReadyState = "OPEN") =>
             /\ Len(sent') = 1
             /\ sent'[1].type = "error"
             /\ activeStreams' = NoProcess
      /\ \A p \in ProcIds :
           (ProcError(p) /\ wsReadyState = "OPEN") =>
             /\ Len(sent') = 1
             /\ sent'[1].type = "error" ]_vars

\* C25: no log message the server sends has empty or white-space-only data.
C25_NoEmptyLogMessage ==
  \A i \in DOMAIN sent : sent[i].type = "log" => trim(sent[i].data) # <<>>

\* C26: the entries of one tail process stand in the Retained Log List in
\* the order the process emitted their chunks: no entry of a later chunk
\* stands before an entry of an earlier one.
C26_EmissionOrderKept ==
  \A i, j \in DOMAIN logs :
    (i < j /\ logs[i].src # NoStream /\ logs[i].src = logs[j].src) => logs[i].id <= logs[j].id

\* C27 (LogFilter debounce): onChange is called only by the timer, when it
\* is due and 300 ms have passed since the input changed last, with the
\* text of the input, which differs from the external value; an edit sets
\* the timer to 300 ms again; a value is not reported twice in a row; after
\* unmount no timer is pending.
C27_Debounce ==
  /\ [][ onChangeCalls' # onChangeCalls =>
           /\ filterMounted
           /\ debounceTimer = 0
           /\ sinceInput >= 300
           /\ inputValue # filter
           /\ onChangeCalls' = Append(onChangeCalls, inputValue) ]_vars
  /\ [][ inputValue' # inputValue => (debounceTimer' = 300 /\ onChangeCalls' = onChangeCalls)
       ]_vars
  /\ []( /\ \A i \in 1..(Len(onChangeCalls) - 1) : onChangeCalls[i] # onChangeCalls[i + 1]
         /\ ~filterMounted => debounceTimer = NoDebounce )

\* the timer has fired 300 ms after the last edit and onChange has been
\* called once, with the text of the input, which the App has adopted
C27_Witness ==
  /\ Len(onChangeCalls) = 1
  /\ onChangeCalls[1] = <<"A", "b">>
  /\ filter = <<"A", "b">>
  /\ inputValue = <<"A", "b">>
  /\ sinceInput = 300

\* C28 (filter fixed at stream start): a chunk written by a tail process is
\* filtered with the keyword of the start request that spawned this
\* process, whatever start requests the connection has received since.
C28_FilterFixedAtStart ==
  [][ \A p \in ProcIds, chunk \in Chunks :
        (ProcData(p, chunk) /\ wsReadyState = "OPEN") =>
          IF Suppressed(chunk, requests[p].filter)
          THEN sent' = sent
          ELSE sent' = <<LogMessage(p, FilteredLines(chunk, requests[p].filter))>> ]_vars

\* two starts with different keywords; the process of the first one, already
\* replaced, has written a chunk that was filtered with the first keyword
C28_Witness ==
  /\ Len(requests) = 2
  /\ requests[1].filter = <<"A">>
  /\ requests[2].filter = <<>>
  /\ Running(2)
  /\ 1 \in procKilled
  /\ Len(sent) = 1
  /\ sent[1].type = "log"
  /\ sent[1].src = 1
  /\ sent[1].data = <<"A", "\n", "a">>

\* C29 (line filter): with a non-empty keyword the data of an emitted log
\* message is the lines of the chunk whose lowercase form contains the
\* lowercased keyword, in their order, joined by newline; with an empty
\* keyword it is the chunk.
C29_KeptLines ==
  [][ \A p \in ProcIds, chunk \in Chunks :
        (ProcData(p, chunk) /\ sent' # sent) =>
          LET kw == requests[p].filter
              ls == split(chunk)
              K == { i \in 1..Len(ls) : includes(toLowerCase(ls[i]), toLowerCase(kw)) }
              kept == [k \in 1..Cardinality(K) |->
                         ls[CHOOSE i \in K : Cardinality({ j \in K : j < i }) = k - 1]]
          IN /\ Len(sent') = 1
             /\ sent'[1].type = "log"
             /\ sent'[1].data = IF kw = <<>> THEN chunk ELSE join(kept) ]_vars

\* a chunk of three lines was filtered with keyword "A": the two lines that
\* contain it in either case are sent, the line between them is not
C29_Witness ==
  /\ Len(sent) = 1
  /\ sent[1].type = "log"
  /\ sent[1].data = <<"A", "\n", "a">>
  /\ sent[1].src \in ProcIds
  /\ requests[sent[1].src].filter = <<"A">>

\* C30 (started names the registered process): a start that succeeds sends
\* one `started` with the requested containerId once its process is
\* registered; after two starts, when no handler is suspended, the process
\* the last `started` was sent for, if it runs and was not stopped, is the
\* one in the registry.
C30_StartedNamesRegistered ==
  (/\ Len(requests) = 2
   /\ \A i \in 1..2 : requests[i].type = "start"
   /\ awaiting = {}
   /\ wsReadyState = "OPEN"
   /\ lastStarted # NoProcess
   /\ Running(lastStarted)
   /\ lastStarted \notin procKilled)
  => activeStreams = lastStarted

\* C31: a snapshot that arrived while streaming was disabled or while no
\* container was selected is discarded: while it is the published snapshot
\* and has been ignored so far, no step makes one of its messages a LogEntry
\* of the Retained Log List, also not one that enables streaming or selects
\* a container.
C31_IgnoredSnapshotDiscarded ==
  [][ ignoredSnapshot =>
        \A i \in DOMAIN logs', j \in DOMAIN batchMessages :
          logs'[i].id # batchMessages[j].id ]_vars

\* C32: right after the container-change handler, and after the
\* filter-change handler when a container is selected and the connection is
\* open, PendingBuffer is empty, no flush timer is scheduled, the published
\* snapshot is empty and the Retained Log List is empty; a start request is
\* never transmitted by a step that leaves one of them non-empty.
C32_ClearedOnSubjectChange ==
  [][ LET AllCleared == /\ pendingMessages' = <<>>
                        /\ batchTimerRef' = NoTimer
                        /\ timers' = {}
                        /\ batchMessages' = <<>>
                        /\ logs' = <<>>
      IN /\ (\E c \in Containers \cup {""} : HandleContainerChange(c)) => AllCleared
         /\ (\E f \in Filters :
               HandleFilterChange(f) /\ selectedContainer # "" /\ isConnected)
              => AllCleared
         /\ outbox' # outbox => AllCleared ]_vars

\* two messages had arrived, the first was published and the second was
\* pending with its timer set when the container was changed to c2: all is
\* cleared and the start request for c2 is sent
C32_Witness ==
  /\ arrivals = 2
  /\ discarded = {2}
  /\ selectedContainer = "c2"
  /\ StartRequest("c2", filter) \in outbox
  /\ StartRequest("c1", filter) \in outbox
  /\ pendingMessages = <<>>
  /\ batchTimerRef = NoTimer
  /\ timers = {}
  /\ batchMessages = <<>>
  /\ logs = <<>>

\* C33: no LogEntry of the Retained Log List has empty or missing text; of
\* a snapshot that is processed, exactly the messages of the selected
\* container that have a non-empty text become entries, in their order,
\* whatever else the snapshot holds.
C33_NoEmptyText ==
  /\ [](\A i \in DOMAIN logs : logs[i].text # NoData /\ logs[i].text # <<>>)
  /\ [][ \A batch \in Snapshots :
           LET K == { i \in DOMAIN batch :
                        /\ batch[i].data # NoData
                        /\ batch[i].data # <<>>
                        /\ batch[i].containerId = selectedContainer }
               added == [k \in 1..Cardinality(K) |->
                           LogEntry(batch[CHOOSE i \in K :
                                            Cardinality({ j \in K : j < i }) = k - 1])]
           IN ( /\ SnapshotArrives(batch)
                /\ isStreaming
                /\ selectedContainer # ""
                /\ maxLogs = 0 \/ Len(logs) + Cardinality(K) <= maxLogs )
              => logs' = logs \o added ]_vars

\* a snapshot of a message without data, a message with text and a message
\* with the empty text has been processed: the list holds the second alone
C33_Witness ==
  /\ Len(batchMessages) = 3
  /\ batchMessages[1].data = NoData
  /\ batchMessages[3].data = <<>>
  /\ isStreaming
  /\ selectedContainer = "c1"
  /\ Len(logs) = 1
  /\ logs[1].text = <<"y">>
  /\ logs[1].id = 2

\* C34: while the hook is mounted, isConnected is true exactly when the
\* current socket has opened and has not closed: false at the start, left
\* as it is by an error event, false after a close, true again once the
\* socket of the reconnect has opened.
C34_ConnectedIffOpen ==
  /\ [](isConnected <=> wsRef = "OPEN")
  /\ [][ OnError => (isConnected' = isConnected /\ wsRef' = wsRef) ]_vars
  /\ [][ (wsRef' = "CLOSED" /\ wsRef # "CLOSED") => ~isConnected' ]_vars
  /\ [][ (wsRef' = "CONNECTING" /\ wsRef # "CONNECTING") => ~isConnected' ]_vars

\* the socket reported an error, the connection was closed once, and the
\* socket of the reconnect is open
C34_Witness ==
  /\ \E w \in warnings : w.kind = "socket error"
  /\ attempts.closes = 1
  /\ attempts.connects = 2
  /\ wsRef = "OPEN"
  /\ isConnected

\* C35: in every state of the mounted client, PendingBuffer is non-empty
\* exactly when a flush timer is scheduled, and at most one flush timer is
\* scheduled: the one batchTimerRef holds.
C35_TimerIffPending ==
  /\ pendingMessages # <<>> <=> timers # {}
  /\ Cardinality(timers) <= 1
  /\ timers = IF batchTimerRef = NoTimer THEN {} ELSE {batchTimerRef}

\* a message was thrown away by clearBuffer, a later one is pending with
\* its timer scheduled, and the connection was closed and is being made anew
C35_Witness ==
  /\ discarded = {1}
  /\ Len(pendingMessages) = 1
  /\ pendingMessages[1].id = 2
  /\ batchTimerRef \in timers
  /\ attempts.closes = 1
  /\ attempts.connects = 2
  /\ wsRef = "CONNECTING"

\* C36: a log message in PendingBuffer does not stay there forever: it is
\* published in a snapshot, or thrown away by clearBuffer, or the hook is
\* torn down; a close of the connection and a reconnect do not change that.
C36_BufferedEventuallyLeaves ==
  \A id \in 1..MaxArrivals :
    (\E i \in DOMAIN pendingMessages : pendingMessages[i].id = id)
      ~> \/ \E i \in DOMAIN batchMessages : batchMessages[i].id = id
         \/ id \in discarded
         \/ ~mounted

\* the first message has been published while the connection, closed after
\* the message had arrived, waits for its reconnect
C36_Witness ==
  /\ mounted
  /\ arrivals = 1
  /\ Len(batchMessages) = 1
  /\ batchMessages[1].id = 1
  /\ pendingMessages = <<>>
  /\ attempts.closes = 1
  /\ wsRef = "CLOSED"
  /\ reconnectTimeout

\* C37: in every state with a committed bound B > 0 the Retained Log List
\* has at most B entries, also right after handleMaxLogsChange has
\* committed a bound smaller than the length of the list.
C37_ListWithinBound ==
  maxLogs > 0 => Len(logs) <= maxLogs

\* C38: when the last request received is a stop, answered with `stopped`,
\* no tail process is registered for the connection and none runs that
\* kill() was not called on, also when the stop arrived while a start was
\* suspended at its await.
C38_StoppedMeansNoStream ==
  (Len(requests) > 0 /\ requests[Len(requests)].type = "stop") =>
    /\ activeStreams = NoProcess
    /\ \A p \in ProcIds : Running(p) => p \in procKilled

\* C39: a start request is transmitted only by the container-change and the
\* filter-change handler, for the container that is selected then, and only
\* if one is selected and the connection is open at that moment; opening,
\* closing and re-making the connection transmits nothing.
C39_StartOnlyOnSubjectChange ==
  [][ /\ outbox' # outbox =>
           /\ isConnected
           /\ wsRef = "OPEN"
           /\ \/ \E c \in Containers :
                   /\ HandleContainerChange(c)
                   /\ outbox' = outbox \cup {StartRequest(c, filter)}
              \/ \E f \in Filters :
                   /\ HandleFilterChange(f)
                   /\ selectedContainer \in Containers
                   /\ outbox' = outbox \cup {StartRequest(selectedContainer, f)}
      /\ (OnOpen \/ OnClose \/ Reconnect) => outbox' = outbox ]_vars

\* c1 was selected while the connection was down; the connection has been
\* made anew and is open, and no start request has been transmitted
C39_Witness ==
  /\ selectedContainer = "c1"
  /\ isConnected
  /\ wsRef = "OPEN"
  /\ attempts.closes = 1
  /\ attempts.connects = 2
  /\ outbox = {}

=============================================================================
